---------------------------- MODULE Spec2Model ----------------------------
(***************************************************************************)
(* Company Data Manager (webSearch.py): a pasted text is parsed into a     *)
(* record of nine fields (parse_text) and appended to an Excel sheet       *)
(* unless its Company Name is already there (add_to_excel).                *)
(*                                                                         *)
(* Texts are sequences of tokens.  A token is one character ("a", "b",     *)
(* the space " ", the newline "\n") or the text of a label up to and       *)
(* including its colon ("Company Name:"); no label is a substring of       *)
(* another, so a text has one tokenisation.  A cell value is a text too.   *)
(***************************************************************************)
EXTENDS Integers, Sequences, FiniteSets, TLC

VARIABLES
    selected_excel_file,  \* self.selected_excel_file: NoFile or Path
    excel_file,           \* the file at Path on disk
    text_edit,            \* the content of self.text_edit
    company_data,         \* what parse_text returned in the last handler
    messages,             \* the QMessageBox dialogs the last handler showed
    last,                 \* the last handler that ran
    before,               \* excel_file when the last handler started
    format_failed         \* adjust_excel_format raised in the last handler

vars == << selected_excel_file, excel_file, text_edit, company_data,
           messages, last, before, format_failed >>

-----------------------------------------------------------------------------
(* Bounds *)

\* Rows a sheet may hold before process_input is no longer exercised.
MaxRows == 3
\* Rows of a sheet that exists before the program starts.
MaxInitRows == 1
\* Labelled lines of a parsed text that differ from "<Label>: a".
MaxOdd == 1

-----------------------------------------------------------------------------
(* Python values *)

\* None as parse_text returns it: falsy, like the empty dict.
None == << >>
\* None as a field value (an optional field that was not found).
PyNone == << "None" >>
\* The float NaN pandas reads from an empty cell.
NaN == << "NaN" >>
\* selected_excel_file before a file is chosen; the dialog's "" on cancel.
NoFile == "NoFile"
\* The one path the file dialog can return.
Path == "Path"

Min(S) == CHOOSE i \in S : \A j \in S : i <= j
Max(S) == CHOOSE i \in S : \A j \in S : i >= j

\* str.strip(): leading and trailing whitespace removed.
Whitespace == { " ", "\n" }
strip(s) ==
    LET idx == { i \in 1..Len(s) : s[i] \notin Whitespace }
    IN  IF idx = {} THEN << >> ELSE SubSeq(s, Min(idx), Max(idx))

-----------------------------------------------------------------------------
(* Field Extractor *)

required_columns ==
    << "Company Name", "Company Phone", "Company Email",
       "Industry", "Company Type", "Import/Export Activities",
       "Company Country", "Company Website", "Operations" >>

Columns == { required_columns[i] : i \in 1..Len(required_columns) }

\* The fields parse_text reads with re.search(...).group(1).
Mandatory == { "Company Name", "Company Phone", "Industry", "Company Type",
               "Company Country", "Operations" }

\* The label each field's pattern starts with, up to its colon.
Label(k) == CASE k = "Company Name" -> "Company Name:"
              [] k = "Company Phone" -> "Company Phone:"
              [] k = "Company Email" -> "Company Email:"
              [] k = "Industry" -> "Industry:"
              [] k = "Company Type" -> "Company Type:"
              [] k = "Import/Export Activities" -> "Import/Export Activities:"
              [] k = "Company Country" -> "Company Country:"
              [] k = "Company Website" -> "Company Website:"
              [] k = "Operations" -> "Company Operations:"

\* Only the Operations pattern is compiled with re.DOTALL.
DotAll(k) == k = "Operations"

\* re.search(r"<label> (.+)", text [, re.DOTALL]): the leftmost place where
\* the label, a space and at least one character follow each other ("."
\* is any character but the newline, any character at all under DOTALL);
\* group(1) runs to the end of the line (of the text under DOTALL).
re_search(label, text, dotall) ==
    LET starts == { i \in 1..(Len(text) - 2) :
                      /\ text[i] = label
                      /\ text[i + 1] = " "
                      /\ (dotall \/ text[i + 2] # "\n") }
        s == Min(starts)
        stops == { j \in (s + 2)..Len(text) : text[j] = "\n" }
        e == IF dotall \/ stops = {} THEN Len(text) ELSE Min(stops) - 1
    IN  IF starts = {}
        THEN [found |-> FALSE, group |-> << >>]
        ELSE [found |-> TRUE, group |-> SubSeq(text, s + 2, e)]

\* extract_optional_field
extract_optional_field(k, text) ==
    LET match == re_search(Label(k), text, FALSE)
    IN  IF match.found THEN strip(match.group) ELSE PyNone

\* A parse_text that reads Company Phone as an optional field.
parse_text_phone_optional(input_text) ==
    LET match(k) == re_search(Label(k), input_text, DotAll(k))
    IN  IF \E k \in Mandatory \ {"Company Phone"} : ~match(k).found
        THEN None
        ELSE [k \in Columns |->
                IF k \in Mandatory \ {"Company Phone"}
                THEN strip(match(k).group)
                ELSE extract_optional_field(k, input_text)]

\* A parse_text whose Industry pattern is compiled with re.DOTALL too.
parse_text_industry_dotall(input_text) ==
    LET match(k) == re_search(Label(k), input_text,
                              DotAll(k) \/ k = "Industry")
    IN  IF \E k \in Mandatory : ~match(k).found
        THEN None
        ELSE [k \in Columns |->
                IF k \in Mandatory
                THEN strip(match(k).group)
                ELSE extract_optional_field(k, input_text)]

\* parse_text: a mandatory field whose pattern finds nothing raises
\* AttributeError (None has no group), which is caught: the result is None.
parse_text(input_text) ==
    LET match(k) == re_search(Label(k), input_text, DotAll(k))
    IN  IF \E k \in Mandatory : ~match(k).found
        THEN None
        ELSE [k \in Columns |->
                IF k \in Mandatory
                THEN strip(match(k).group)
                ELSE extract_optional_field(k, input_text)]

-----------------------------------------------------------------------------
(* Sheet Store *)

\* A file on disk: a sheet is a header row (cols) and data rows, each row
\* a function from the header's names to cells; << >> is the empty cell.
\* corrupt: reading it raises; readonly: writing it raises.
Absent == [exists |-> FALSE, corrupt |-> FALSE, readonly |-> FALSE,
           cols |-> << >>, rows |-> << >>]

ColSet(cols) == { cols[i] : i \in 1..Len(cols) }

\* pd.read_excel: an empty cell is read as NaN.
read_excel(f) ==
    [cols |-> f.cols,
     rows |-> [i \in 1..Len(f.rows) |->
                 [c \in ColSet(f.cols) |->
                    IF f.rows[i][c] = << >> THEN NaN ELSE f.rows[i][c]]]]

\* pd.isna
isna(v) == v \in { NaN, PyNone }

\* A to_excel without index=False: the row index is written as a first,
\* unnamed column.
to_excel_index(df, f) ==
    LET cs == ColSet(df.cols) \cup {"Unnamed: 0"}
    IN  [exists |-> TRUE, corrupt |-> FALSE, readonly |-> f.readonly,
         cols |-> << "Unnamed: 0" >> \o df.cols,
         rows |-> [i \in 1..Len(df.rows) |->
                     [c \in cs |->
                        IF c = "Unnamed: 0" THEN << "0" >>
                        ELSE IF isna(df.rows[i][c]) THEN << >>
                        ELSE df.rows[i][c]]]]

\* df.to_excel(file_name, index=False): a missing value (NaN, None) is
\* written as na_rep "", and openpyxl writes "" as an empty cell.
to_excel(df, f) ==
    [exists |-> TRUE, corrupt |-> FALSE, readonly |-> f.readonly,
     cols |-> df.cols,
     rows |-> [i \in 1..Len(df.rows) |->
                 [c \in ColSet(df.cols) |->
                    IF isna(df.rows[i][c]) THEN << >> ELSE df.rows[i][c]]]]

\* The required columns the loop of ensure_columns_exist adds.
MissingColumns(cols) ==
    SelectSeq(required_columns, LAMBDA c : c \notin ColSet(cols))

\* for column in required_columns: if column not in df.columns:
\*     df[column] = None
AddColumns(df) ==
    LET added == MissingColumns(df.cols)
    IN  [cols |-> df.cols \o added,
         rows |-> [i \in 1..Len(df.rows) |->
                     [c \in ColSet(df.cols) \cup ColSet(added) |->
                        IF c \in ColSet(df.cols) THEN df.rows[i][c]
                        ELSE PyNone]]]

\* ensure_columns_exist: what it leaves on disk, and whether it showed
\* "Error while checking Excel file" (an exception of the read or of the
\* write, caught inside).
ensure_columns_exist(f) ==
    IF f.exists
    THEN IF f.corrupt \/ f.readonly
         THEN [file |-> f, error |-> TRUE]
         ELSE [file |-> to_excel(AddColumns(read_excel(f)), f),
               error |-> FALSE]
    ELSE [file |-> to_excel([cols |-> required_columns, rows |-> << >>], f),
          error |-> FALSE]

\* df["Company Name"] == name, one element: NaN equals nothing.
PdEq(cell, name) == ~isna(cell) /\ cell = name

\* A concat that keeps only the new row.
concat_new_only(df, data) ==
    [cols |-> df.cols,
     rows |-> << [c \in ColSet(df.cols) |->
                    IF c \in Columns THEN data[c] ELSE NaN] >>]

\* pd.concat([df, pd.DataFrame([company_data])], ignore_index=True): the
\* columns are df's, then the record's keys df lacks; a value a row has no
\* column for is NaN.
concat(df, data) ==
    LET cols == df.cols \o MissingColumns(df.cols)
    IN  [cols |-> cols,
         rows |-> [i \in 1..(Len(df.rows) + 1) |->
                     [c \in ColSet(cols) |->
                        IF i <= Len(df.rows)
                        THEN IF c \in ColSet(df.cols)
                             THEN df.rows[i][c] ELSE NaN
                        ELSE IF c \in Columns THEN data[c] ELSE NaN]]]

\* add_to_excel: the file it leaves, what it returns, and the step that
\* raised ("none", "read", "key", "write", "format"); every exception is
\* caught, shown as "Error while adding data to Excel", and False returned.
add_to_excel(f, data, format_fails) ==
    IF ~f.exists \/ f.corrupt
    THEN [file |-> f, result |-> FALSE, raised |-> "read"]
    ELSE LET df == read_excel(f)
         IN  IF "Company Name" \notin ColSet(df.cols)
             THEN [file |-> f, result |-> FALSE, raised |-> "key"]
             ELSE IF \E i \in 1..Len(df.rows) :
                        PdEq(df.rows[i]["Company Name"], data["Company Name"])
             THEN [file |-> f, result |-> FALSE, raised |-> "none"]
             ELSE IF f.readonly
             THEN [file |-> f, result |-> FALSE, raised |-> "write"]
             ELSE IF format_fails
             THEN [file |-> to_excel(concat(df, data), f),
                   result |-> FALSE, raised |-> "format"]
             ELSE [file |-> to_excel(concat(df, data), f),
                   result |-> TRUE, raised |-> "none"]

-----------------------------------------------------------------------------
(* Texts the user pastes *)

\* A field with no line in the text.
NoLine == << "absent" >>

Line(k, v) == << Label(k), " " >> \o v

RECURSIVE JoinLines(_)
JoinLines(ls) ==
    IF Len(ls) = 0 THEN << >>
    ELSE IF Len(ls) = 1 THEN ls[1]
    ELSE ls[1] \o << "\n" >> \o JoinLines(Tail(ls))

RECURSIVE SplitLines(_)
SplitLines(t) ==
    LET nl == { i \in 1..Len(t) : t[i] = "\n" }
    IN  IF nl = {} THEN << t >>
        ELSE << SubSeq(t, 1, Min(nl) - 1) >>
             \o SplitLines(SubSeq(t, Min(nl) + 1, Len(t)))

\* The text with one line "<Label>: <val[k]>" per field of order that has
\* one.
TextOf(val, order) ==
    LET keys == SelectSeq(order, LAMBDA k : val[k] # NoLine)
    IN  JoinLines([i \in 1..Len(keys) |-> Line(keys[i], val[keys[i]])])

\* Six mandatory lines with the given company name; with opt, the three
\* optional lines too.
Good(name, opt) ==
    TextOf([k \in Columns |->
              IF k = "Company Name" THEN name
              ELSE IF k \in Mandatory THEN << "a" >>
              ELSE IF opt THEN << "b" >> ELSE NoLine],
           required_columns)

\* The text of Good(<<"a">>, FALSE) without the line of field m.
Missing(m) ==
    TextOf([k \in Columns |->
              IF k \in Mandatory \ {m} THEN << "a" >> ELSE NoLine],
           required_columns)

\* What the text box holds when the button is clicked.
Inputs ==
    { Good(<< "a" >>, FALSE), Good(<< "b" >>, TRUE), Good(<< " " >>, FALSE),
      << " ", "\n" >> }
    \cup { Missing(m) : m \in Mandatory }

\* The sheets a file may hold before the program starts.
InitCols ==
    { << >>, << "Extra" >>, << "Company Name", "Extra" >>,
      << "Company Phone", "Company Name" >>, required_columns,
      required_columns \o << "Extra" >> }

InitRow(cols, name) ==
    [c \in ColSet(cols) |->
        IF c = "Company Name" THEN name
        ELSE IF c = "Extra" THEN << "x" >> ELSE << >>]

InitNames == { << "a" >>, << "c" >> }

\* Sheets in which no two rows share a Company Name; a sheet without that
\* column has at most one row.
InitRows(cols) ==
    { rs \in UNION { [1..n -> { InitRow(cols, v) : v \in InitNames }] :
                       n \in 0..MaxInitRows } :
        /\ ("Company Name" \notin ColSet(cols) => Len(rs) <= 1)
        /\ \A i, j \in 1..Len(rs) : i # j => rs[i] # rs[j] }

InitFiles ==
    { Absent,
      [exists |-> TRUE, corrupt |-> TRUE, readonly |-> FALSE,
       cols |-> << >>, rows |-> << >>] }
    \cup UNION { { [exists |-> TRUE, corrupt |-> FALSE, readonly |-> ro,
                    cols |-> cols, rows |-> rs] :
                     ro \in BOOLEAN, rs \in InitRows(cols) } :
                 cols \in InitCols }

-----------------------------------------------------------------------------
(* The window *)

Init ==
    /\ selected_excel_file = NoFile
    /\ excel_file \in InitFiles
    /\ text_edit = << >>
    /\ company_data = None
    /\ messages = << >>
    /\ last = "init"
    /\ before = excel_file
    /\ format_failed = FALSE

\* The user replaces the content of the text box.
EditText(t) ==
    /\ text_edit' = t
    /\ last' = "edit"
    /\ messages' = << >>
    /\ company_data' = None
    /\ before' = excel_file
    /\ format_failed' = FALSE
    /\ UNCHANGED << selected_excel_file, excel_file >>

\* select_excel_file, the dialog returning file_name.
select_excel_file(file_name) ==
    /\ last' = "select"
    /\ before' = excel_file
    /\ company_data' = None
    /\ format_failed' = FALSE
    /\ UNCHANGED text_edit
    /\ IF file_name # NoFile
       THEN LET r == ensure_columns_exist(excel_file)
            IN  /\ selected_excel_file' = file_name
                /\ excel_file' = r.file
                /\ messages' = (IF r.error THEN << "ErrorChecking" >>
                                ELSE << >>) \o << "FileSelected" >>
       ELSE /\ messages' = << "WarnSelectValid" >>
            /\ UNCHANGED << selected_excel_file, excel_file >>

\* process_input; format_fails: adjust_excel_format raises if it is reached.
process_input(format_fails) ==
    /\ Len(excel_file.rows) < MaxRows
    /\ last' = "process"
    /\ before' = excel_file
    /\ UNCHANGED << selected_excel_file, text_edit >>
    /\ IF selected_excel_file = NoFile
       THEN /\ messages' = << "ErrorSelectFirst" >>
            /\ company_data' = None
            /\ format_failed' = FALSE
            /\ UNCHANGED excel_file
       ELSE IF strip(text_edit) = << >>
       THEN /\ messages' = << "ErrorPasteData" >>
            /\ company_data' = None
            /\ format_failed' = FALSE
            /\ UNCHANGED excel_file
       ELSE LET data == parse_text(strip(text_edit))
            IN  /\ company_data' = data
                /\ IF data = None
                   THEN /\ messages' = << "ErrorInvalidFormat" >>
                        /\ format_failed' = FALSE
                        /\ UNCHANGED excel_file
                   ELSE LET r == add_to_excel(excel_file, data, format_fails)
                        IN  /\ excel_file' = r.file
                            /\ format_failed' = (r.raised = "format")
                            /\ messages' =
                                 (IF r.raised # "none"
                                  THEN << "ErrorAdding" >> ELSE << >>)
                                 \o << IF r.result THEN "Success"
                                       ELSE "AlreadyExists" >>

Next ==
    \/ \E t \in Inputs : EditText(t)
    \/ \E file_name \in { NoFile, Path } : select_excel_file(file_name)
    \/ \E format_fails \in BOOLEAN : process_input(format_fails)

Spec == Init /\ [][Next]_vars

-----------------------------------------------------------------------------
(* parse_text on its own *)

\* The value of field k's line when nothing is odd about it.
PlainValue(k) ==
    IF k \in { "Company Name", "Company Email", "Industry", "Company Country" }
    THEN << "a" >> ELSE << "b" >>

\* What an odd line holds after its label: no line at all, nothing, or
\* blanks only.
OddValues == { NoLine, << >>, << " " >> }

\* order with its i-th field moved to place j.
MoveLine(order, i, j) ==
    LET rest == [n \in 1..(Len(order) - 1) |->
                   IF n < i THEN order[n] ELSE order[n + 1]]
    IN  [n \in 1..Len(order) |->
           IF n < j THEN rest[n]
           ELSE IF n = j THEN order[i] ELSE rest[n - 1]]

\* Texts of labelled lines, at most MaxOdd of them odd, in the order of
\* required_columns with one line moved.
ParseInputs ==
    LET odd == { S \in SUBSET Columns : Cardinality(S) <= MaxOdd }
        vals == UNION { { [k \in Columns |->
                             IF k \in S THEN g[k] ELSE PlainValue(k)] :
                          g \in [S -> OddValues] } : S \in odd }
        orders == { MoveLine(required_columns, i, j) :
                      i, j \in 1..Len(required_columns) }
    IN  { TextOf(v, o) : v \in vals, o \in orders }

InitParse ==
    /\ selected_excel_file = NoFile
    /\ excel_file = Absent
    /\ text_edit \in ParseInputs
    /\ company_data = None
    /\ messages = << >>
    /\ last = "init"
    /\ before = Absent
    /\ format_failed = FALSE

\* parse_text(input_text) called on the text as it stands.
ParseText ==
    /\ last = "init"
    /\ company_data' = parse_text(text_edit)
    /\ messages' = IF parse_text(text_edit) = None
                   THEN << "ErrorInvalidFormat" >> ELSE << >>
    /\ last' = "parse"
    /\ UNCHANGED << selected_excel_file, excel_file, text_edit, before,
                    format_failed >>

NextParse == ParseText

SpecParse == InitParse /\ [][NextParse]_vars

-----------------------------------------------------------------------------
(* What the claims speak of *)

Shown(m) == \E i \in 1..Len(messages) : messages[i] = m

Readable(f) == f.exists /\ ~f.corrupt

HasSchema(f) == Readable(f) /\ Columns \subseteq ColSet(f.cols)

\* The cell a value is stored as.
ToCell(v) == IF isna(v) THEN << >> ELSE v

\* The text holds field k's label.
HasLabel(text, k) == \E i \in 1..Len(text) : text[i] = Label(k)

\* The text holds a line "<Label>: <value>" of field k, the value at least
\* one character long.
HasLabelledLine(text, k) ==
    \E n \in 1..Len(SplitLines(text)) :
        LET line == SplitLines(text)[n]
        IN  Len(line) >= 3 /\ line[1] = Label(k) /\ line[2] = " "

\* The last line of the text is that of Company Operations.
OpsLineLast(text) ==
    LET ls == SplitLines(text)
    IN  Len(ls[Len(ls)]) >= 1 /\ ls[Len(ls)][1] = Label("Operations")

\* The text with its lines n and n + 1 exchanged.
Reordered(text, n) ==
    LET ls == SplitLines(text)
    IN  JoinLines([i \in 1..Len(ls) |->
                     IF i = n THEN ls[n + 1]
                     ELSE IF i = n + 1 THEN ls[n] ELSE ls[i]])

\* No two rows of the sheet share a Company Name.
NamesUnique(f) ==
    \A i, j \in 1..Len(f.rows) :
        i # j => f.rows[i]["Company Name"] # f.rows[j]["Company Name"]

\* process_input reached add_to_excel with a record, on a readable sheet.
Appending ==
    /\ last = "process"
    /\ company_data # None
    /\ HasSchema(before)

-----------------------------------------------------------------------------
(* C1 *)

\* C1: a record whose Company Name is in some row of the sheet, and in
\* particular a record that is the sheet's last row (the same record appended
\* twice in succession), is reported as Duplicate and nothing is written.
C1_DuplicateNoWrite ==
    (/\ Appending
     /\ Len(before.rows) > 0
     /\ \/ /\ company_data["Company Name"] # << >>
           /\ \E i \in 1..Len(before.rows) :
                before.rows[i]["Company Name"] = company_data["Company Name"]
        \/ \A c \in Columns :
             before.rows[Len(before.rows)][c] = ToCell(company_data[c]))
    => messages = << "AlreadyExists" >> /\ excel_file = before

\* A record with a name the sheet holds was reported as Duplicate.
C1_Witness ==
    /\ Appending
    /\ company_data["Company Name"] # << >>
    /\ \E i \in 1..Len(before.rows) :
         before.rows[i]["Company Name"] = company_data["Company Name"]
    /\ messages = << "AlreadyExists" >>

-----------------------------------------------------------------------------
(* C2 *)

-----------------------------------------------------------------------------
(* C3 *)

\* C3: a text with a line "<Label>: <value>" for each of the six mandatory
\* fields, blanks counting as a value, parses to a record whose mandatory
\* fields are all non-empty.
C3_MandatoryNonEmpty ==
    (/\ last = "parse"
     /\ \A k \in Mandatory : HasLabelledLine(text_edit, k))
    => /\ company_data # None
       /\ \A m \in Mandatory : company_data[m] # << >>

-----------------------------------------------------------------------------
(* C4 *)

\* C4: when the text lacks the label of a mandatory field, parse_text
\* returns no record, process_input shows only the format error, and the
\* file is as it was.
C4_MissingLabelNothingSaved ==
    (/\ last = "process"
     /\ \E k \in Mandatory : ~HasLabel(text_edit, k))
    => /\ company_data = None
       /\ excel_file = before
       /\ (selected_excel_file # NoFile /\ strip(text_edit) # << >>
             => messages = << "ErrorInvalidFormat" >>)

\* A text without the Company Operations line was refused.
C4_Witness ==
    /\ last = "process"
    /\ HasSchema(excel_file)
    /\ ~excel_file.readonly
    /\ ~HasLabel(text_edit, "Operations")
    /\ HasLabel(text_edit, "Company Name")
    /\ messages = << "ErrorInvalidFormat" >>

-----------------------------------------------------------------------------
(* C5 *)

\* C5: exchanging any two neighbouring lines of the text leaves what
\* parse_text returns unchanged.
C5_OrderIrrelevant ==
    last = "parse"
    => \A n \in 1..(Len(SplitLines(text_edit)) - 1) :
         parse_text(Reordered(text_edit, n)) = company_data

\* C5, amended: when the Company Operations line is the last line, exchanging
\* any two neighbouring lines before it leaves what parse_text returns
\* unchanged.
C5_OrderIrrelevantBeforeOps ==
    (last = "parse" /\ OpsLineLast(text_edit))
    => \A n \in 1..(Len(SplitLines(text_edit)) - 2) :
         parse_text(Reordered(text_edit, n)) = company_data

\* A text whose first line is not Company Name and whose last line is
\* Company Operations was parsed to a record.
C5_Witness ==
    /\ last = "parse"
    /\ OpsLineLast(text_edit)
    /\ text_edit[1] # Label("Company Name")
    /\ company_data # None
    /\ company_data["Company Name"] = << "a" >>
    /\ company_data["Operations"] = << "b" >>

-----------------------------------------------------------------------------
(* C6 *)

\* C6: a handler that showed an error shows nothing else, and a file whose
\* schema check failed is not the selected file.
C6_ErrorsTerminal ==
    /\ (Shown("ErrorChecking")
          => messages = << "ErrorChecking" >> /\ selected_excel_file = NoFile)
    /\ (Shown("ErrorAdding") => messages = << "ErrorAdding" >>)

-----------------------------------------------------------------------------
(* C7 *)

\* C7: the selected file holds a sheet with the nine columns; a file that did
\* not exist is created with exactly these and no rows; a file that existed
\* keeps its columns and rows, the added columns empty.
C7_SelectedHasColumns ==
    /\ (selected_excel_file # NoFile => HasSchema(excel_file))
    /\ (last = "select" /\ Shown("FileSelected") /\ ~before.exists
          => excel_file.cols = required_columns /\ excel_file.rows = << >>)
    /\ (last = "select" /\ Shown("FileSelected") /\ Readable(before)
          => /\ SubSeq(excel_file.cols, 1, Len(before.cols)) = before.cols
             /\ Len(excel_file.rows) = Len(before.rows)
             /\ \A i \in 1..Len(before.rows) :
                  \A c \in ColSet(excel_file.cols) :
                    excel_file.rows[i][c] =
                      IF c \in ColSet(before.cols) THEN before.rows[i][c]
                      ELSE << >>)

-----------------------------------------------------------------------------
(* C8 *)

\* C8: after select_excel_file has run ensure_columns_exist on the file,
\* running it once more leaves the columns and the rows as they are.
C8_EnsureIdempotent ==
    (last = "select" /\ Shown("FileSelected"))
    => /\ ensure_columns_exist(excel_file).file.cols = excel_file.cols
       /\ ensure_columns_exist(excel_file).file.rows = excel_file.rows
       /\ ensure_columns_exist(excel_file).file.exists = excel_file.exists

\* ensure_columns_exist added columns to a sheet that has a row.
C8_Witness ==
    /\ last = "select"
    /\ Shown("FileSelected")
    /\ before.exists
    /\ Len(before.rows) > 0
    /\ Len(excel_file.cols) > Len(before.cols)
    /\ Len(before.cols) > 1

-----------------------------------------------------------------------------
(* C9 *)

\* C9: no two rows of the sheet have the same Company Name.
C9_UniqueNames ==
    (Readable(excel_file) /\ "Company Name" \in ColSet(excel_file.cols))
    => NamesUnique(excel_file)

-----------------------------------------------------------------------------
(* C10 *)

\* C10: when process_input does not report success, the file is as it was.
C10_ChangeOnlyOnSuccess ==
    (last = "process" /\ ~Shown("Success")) => excel_file = before

=============================================================================
